---- MODULE Spec2Model ----
(***************************************************************************)
(* Cursor-based paginated query engine of the Table component              *)
(* (src/src/components/Table.tsx) together with FirestoreService.getPaged. *)
(* Text values are sequences of UTF-16 code units, documents are named by  *)
(* their position 1..nDocs in the collection, and a page of rows is the    *)
(* sequence of the document names it shows.  The field "año" is written    *)
(* "anio".  A cursor (DocumentSnapshot) is the document it points at; the  *)
(* plan of the query that returned it is kept with it as history.          *)
(* The Table component of src/unnamed/part_000 ("combined") has the same   *)
(* fetchPage, onNext and onPrev (lines 110-163 there) but no filter type:  *)
(* its year, month and sala inputs apply together.  Spec, SpecCalls and    *)
(* SpecForward are the component of Table.tsx ("single"), SpecCombined is  *)
(* the one of part_000.                                                    *)
(***************************************************************************)
EXTENDS Integers, Sequences, FiniteSets, TLC

(* ------------------------------ bounds --------------------------------- *)
\* page size used by the model (the component fixes it with PAGE_SIZE)
PAGE_SIZE == 2
\* the collection holds between 0 and MaxDocs documents
MaxDocs == 5
\* events other than a click on an idle component that one behaviour may hold:
\* filter/sort changes, failed fetches, clicks while a fetch is unresolved
MaxDisturbances == 2
\* longest cursor stack the model follows
MaxStack == 5

(* ------------------------------- text ---------------------------------- *)
EMPTY == <<>>
\* "2009", "2010"
Y2009 == <<50, 48, 48, 57>>
Y2010 == <<50, 48, 49, 48>>
\* "A", "AA", "AB", "B"
StrA == <<65>>
StrAA == <<65, 65>>
StrAB == <<65, 66>>
StrB == <<66>>
\* "1", "x"
Str1 == <<49>>
StrX == <<120>>
\* "Mayo", "mayo", "enero"
Mayo == <<77, 97, 121, 111>>
StrMayo == <<109, 97, 121, 111>>
StrEnero == <<101, 110, 101, 114, 111>>
\* the code unit  appended to the prefix
SENTINEL == 63743
\* what Number() gives for text that is not a number
NaN == -1

RECURSIVE StrLess(_, _)
\* a < b for strings: code unit by code unit, a proper prefix sorts first
StrLess(a, b) ==
  IF b = <<>> THEN FALSE
  ELSE IF a = <<>> THEN TRUE
  ELSE IF a[1] # b[1] THEN a[1] < b[1]
  ELSE StrLess(Tail(a), Tail(b))

StrLeq(a, b) == a = b \/ StrLess(a, b)

RECURSIVE ParseDigits(_, _)
ParseDigits(s, acc) ==
  IF s = <<>> THEN acc
  ELSE IF s[1] < 48 \/ s[1] > 57 THEN NaN
  ELSE ParseDigits(Tail(s), acc * 10 + (s[1] - 48))

\* Number(salaNum): the numeric value of a digit string, NaN otherwise
Number(s) == ParseDigits(s, 0)

\* monthFilter.toLowerCase(), for the letters A-Z
toLowerCase(s) ==
  [i \in 1..Len(s) |-> IF s[i] >= 65 /\ s[i] <= 90 THEN s[i] + 32 ELSE s[i]]

(* --------------------------- the collection ---------------------------- *)
ExpTable == <<StrAA, StrAB, StrB, StrA, StrAA>>

\* field values of document d; numbers are one-element sequences.  The two
\* components read the year and the case reference under different names
\* ("anio"/"year", "expediente"/"exp")
FieldVal(d, f) ==
  CASE f \in {"anio", "year"} -> IF d % 2 = 1 THEN Y2009 ELSE Y2010
    [] f = "sala_num" -> <<(d % 3) + 1>>
    [] f \in {"expediente", "exp"} -> ExpTable[((d - 1) % Len(ExpTable)) + 1]
    [] f = "month" -> IF d <= 3 THEN StrMayo ELSE StrEnero

(* ------------------------------- state --------------------------------- *)
VARIABLES
  nDocs,            \* size of the collection "sentencias" (never written here)
  component,        \* "single": the Table with activeFilterType;
                    \* "combined": the Table whose filters apply together
  monthFilter,      \* "" or a month name ("combined" only)
  activeFilterType, \* "year" | "sala" | "exp" | "null"
  year, salaNum, expPrefix,
  order,            \* "asc" | "desc"
  rows, cursorStack, nextCursor, loading, err,
  inflight,         \* calls of fetchPage suspended at the await of getPaged
  disturbances,     \* changes, failures and overlapping clicks so far
  rowsQ,            \* history: the plan of the query whose result rows shows
  run,              \* history: the undisturbed session since the last reset
  last,             \* history: the failed call or retried call just resolved
  latest            \* history: "pending" | "ok" | "failed", the outcome of the
                    \* fetch issued last

identity == <<activeFilterType, year, salaNum, expPrefix, order>>
history == <<rowsQ, run, last, latest>>
\* what only the handlers of the filter inputs of "combined" write
rest == <<nDocs, component, monthFilter>>
vars == <<rest, identity, rows, cursorStack, nextCursor, loading, err, inflight,
          disturbances, history>>

\* orderByField is never set after useState("sala_num")
orderByField == "sala_num"

NoPlan == [constraints |-> <<>>, obField |-> "", order |-> ""]
\* null / undefined where a DocumentSnapshot is expected
Null == [doc |-> 0, q |-> NoPlan]
NoErr == "null"

Where(f, op, v) == [field |-> f, op |-> op, value |-> v]

\* a variant of constraintsOf whose upper bound is the prefix itself
constraintsOf_noSentinel(aft, y, s, e) ==
  IF aft = "year" /\ y # EMPTY THEN <<Where("anio", "==", y)>>
  ELSE IF aft = "sala" /\ s # EMPTY THEN <<Where("sala_num", "==", <<Number(s)>>)>>
  ELSE IF aft = "exp" /\ e # EMPTY
    THEN <<Where("expediente", ">=", e), Where("expediente", "<=", e)>>
  ELSE <<>>

\* useMemo: only the active filter contributes predicates
constraintsOf(aft, y, s, e) ==
  IF aft = "year" /\ y # EMPTY THEN <<Where("anio", "==", y)>>
  ELSE IF aft = "sala" /\ s # EMPTY THEN <<Where("sala_num", "==", <<Number(s)>>)>>
  ELSE IF aft = "exp" /\ e # EMPTY
    THEN <<Where("expediente", ">=", e),
           Where("expediente", "<=", e \o <<SENTINEL>>)>>
  ELSE <<>>

\* a variant of obFieldOf that keeps the sort field whatever the filter
obFieldOf_unpinned(aft) == orderByField

\* fetchPage: the order-by field is pinned by the active filter type
obFieldOf(aft) ==
  IF aft = "sala" THEN "sala_num"
  ELSE IF aft = "year" THEN "anio"
  ELSE IF aft = "exp" THEN "expediente"
  ELSE orderByField

\* the options fetchPage hands to getPaged, (filter, sort) identity of a query
PlanOf(aft, y, s, e, o) ==
  [constraints |-> constraintsOf(aft, y, s, e), obField |-> obFieldOf(aft), order |-> o]

\* "combined", useMemo: every non-empty input contributes its predicates
constraintsAll(y, s, m, e) ==
  (IF y # EMPTY THEN <<Where("year", "==", y)>> ELSE <<>>)
  \o (IF s # EMPTY THEN <<Where("sala_num", "==", <<Number(s)>>)>> ELSE <<>>)
  \o (IF m # EMPTY THEN <<Where("month", "==", toLowerCase(m))>> ELSE <<>>)
  \o (IF e # EMPTY
        THEN <<Where("exp", ">=", e), Where("exp", "<=", e \o <<SENTINEL>>)>>
        ELSE <<>>)

\* "combined": orderByField is useRef("year"), never assigned
orderByFieldRef == "year"

\* "combined", fetchPage: only the prefix pins the order-by field
obFieldAll(e) == IF e # EMPTY THEN "exp" ELSE orderByFieldRef

PlanAll(y, s, m, e, o) ==
  [constraints |-> constraintsAll(y, s, m, e), obField |-> obFieldAll(e), order |-> o]

\* the constraints and the getPaged options of the current render
constraints ==
  IF component = "single"
  THEN constraintsOf(activeFilterType, year, salaNum, expPrefix)
  ELSE constraintsAll(year, salaNum, monthFilter, expPrefix)
Plan ==
  IF component = "single"
  THEN PlanOf(activeFilterType, year, salaNum, expPrefix, order)
  ELSE PlanAll(year, salaNum, monthFilter, expPrefix, order)

(* ------------------------------ the store ------------------------------ *)
Holds(d, p) ==
  LET v == FieldVal(d, p.field) IN
  CASE p.op = "==" -> v = p.value
    [] p.op = ">=" -> StrLeq(p.value, v)
    [] p.op = "<=" -> StrLeq(v, p.value)

Matches(d, cs) == \A i \in 1..Len(cs) : Holds(d, cs[i])

\* d1 comes strictly before d2 under orderBy(obField, order), ties by name
Before(d1, d2, q) ==
  LET v1 == FieldVal(d1, q.obField)
      v2 == FieldVal(d2, q.obField)
      lt == IF v1 # v2 THEN StrLess(v1, v2) ELSE d1 < d2
  IN d1 # d2 /\ (IF q.order = "asc" THEN lt ELSE ~lt)

RECURSIVE Take(_, _, _)
Take(S, n, q) ==
  IF n = 0 \/ S = {} THEN <<>>
  ELSE LET m == CHOOSE x \in S : \A y \in S \ {x} : Before(x, y, q)
       IN <<m>> \o Take(S \ {m}, n - 1, q)

\* a variant of getDocs whose cursor is inclusive (startAt for startAfter)
getDocs_startAt(n, q, lim, after) ==
  Take({d \in 1..n : Matches(d, q.constraints)
                       /\ (after = Null \/ after.doc = d \/ Before(after.doc, d, q))},
       lim, q)

\* getDocs(query(colRef, where.., orderBy, limit, startAfter))
getDocs(n, q, lim, after) ==
  Take({d \in 1..n : Matches(d, q.constraints)
                       /\ (after = Null \/ Before(after.doc, d, q))}, lim, q)

\* a variant of getPaged that returns the last document as cursor whatever the
\* size of the page
getPaged_noSizeTest(n, pageSize, q, startAfterSnapshot) ==
  LET data == getDocs(n, q, pageSize, startAfterSnapshot)
      lastDoc == IF Len(data) # 0 THEN [doc |-> data[Len(data)], q |-> q] ELSE Null
  IN [data |-> data, nextCursor |-> lastDoc]

\* FirestoreService.getPaged
getPaged(n, pageSize, q, startAfterSnapshot) ==
  LET data == getDocs(n, q, pageSize, startAfterSnapshot)
      lastDoc == IF Len(data) # 0 THEN [doc |-> data[Len(data)], q |-> q] ELSE Null
  IN [data |-> data,
      nextCursor |-> IF lastDoc # Null /\ Len(data) = pageSize THEN lastDoc ELSE Null]

(* ------------------------------- history ------------------------------- *)
\* the session state a call starts from: cursorStack, rows, nextCursor
Snap == [cursorStack |-> cursorStack, rows |-> rows, nextCursor |-> nextCursor,
         valid |-> TRUE]
NoSnap == [cursorStack |-> <<>>, rows |-> <<>>, nextCursor |-> Null, valid |-> FALSE]

NoLast == [event |-> "none", kind |-> "none", pre |-> NoSnap, q |-> NoPlan]
\* the last step was a call of the handler of the given kind
Called(kind) == [event |-> "called", kind |-> kind, pre |-> NoSnap, q |-> NoPlan]
\* stage and undo follow a previous() and the next() right after it: stage 1
\* after the call of previous(), 2 after the call of next() that follows, and
\* undo is the session state before that previous()
NoRun == [ok |-> FALSE, started |-> FALSE, net |-> 0, peak |-> 0, first |-> <<>>,
          stage |-> 0, undo |-> NoSnap]
NewRun == [ok |-> TRUE, started |-> FALSE, net |-> 0, peak |-> 0, first |-> <<>>,
           stage |-> 0, undo |-> NoSnap]

Max(a, b) == IF a > b THEN a ELSE b

\* run after a call of the given kind: a reset on an idle component starts a
\* session, next/previous on an idle component move in it, anything else ends it
RunAfterCall(kind) ==
  IF inflight # <<>> THEN NoRun
  ELSE IF kind \in {"effect", "apply"} THEN NewRun
  ELSE IF ~(run.ok /\ run.started) THEN NoRun
  ELSE IF kind = "next"
    THEN [run EXCEPT !.net = @ + 1, !.peak = Max(@, run.net + 1),
                     !.stage = IF @ = 1 THEN 2 ELSE 0,
                     !.undo = IF run.stage = 1 THEN @ ELSE NoSnap]
  ELSE [run EXCEPT !.net = @ - 1, !.stage = 1, !.undo = Snap]

(* ------------------------------ fetchPage ------------------------------ *)
Disturb == disturbances < MaxDisturbances /\ disturbances' = disturbances + 1
\* a click is free on an idle component and a disturbance otherwise
Click == IF inflight = <<>> THEN UNCHANGED disturbances ELSE Disturb

\* the suspended call: its arguments and closure, and for the history the
\* handler that made it, the state before the handler ran (while it is the only
\* call in flight) and the state before the failed call it repeats
Pending(reset, startAfterSnapshot, q, pageSize, kind, pre) ==
  [reset |-> reset, startAfterSnapshot |-> startAfterSnapshot, q |-> q,
   pageSize |-> pageSize, kind |-> kind,
   pre |-> IF inflight = <<>> THEN pre ELSE NoSnap,
   retryPre |-> IF inflight = <<>> /\ last.event = "failed" /\ last.kind = kind
                THEN last.pre ELSE NoSnap]

Overlapped(r) == [r EXCEPT !.pre = NoSnap, !.retryPre = NoSnap]

\* a variant of fetchPage that asks getPaged for one row more than PAGE_SIZE
fetchPage_pageSizePlusOne(reset, startAfterSnapshot, q, kind) ==
  /\ loading' = TRUE
  /\ err' = NoErr
  /\ inflight' = Append([i \in 1..Len(inflight) |-> Overlapped(inflight[i])],
       Pending(reset, startAfterSnapshot, q, PAGE_SIZE + 1, kind, Snap))
  /\ run' = RunAfterCall(kind)
  /\ last' = Called(kind)
  /\ latest' = "pending"
  /\ UNCHANGED rowsQ

\* fetchPage up to the await: setLoading(true), setErr(null), getPaged called
fetchPage(reset, startAfterSnapshot, q, kind) ==
  /\ loading' = TRUE
  /\ err' = NoErr
  /\ inflight' = Append([i \in 1..Len(inflight) |-> Overlapped(inflight[i])],
       Pending(reset, startAfterSnapshot, q, PAGE_SIZE, kind, Snap))
  /\ run' = RunAfterCall(kind)
  /\ last' = Called(kind)
  /\ latest' = "pending"
  /\ UNCHANGED rowsQ

RemoveAt(s, i) == SubSeq(s, 1, i - 1) \o SubSeq(s, i + 1, Len(s))

\* getPaged resolves: setRows, setNextCursor, setCursorStack on reset, finally
ResolveOk ==
  \E i \in 1..Len(inflight) :
    LET r == inflight[i]
        res == getPaged(nDocs, r.pageSize, r.q, r.startAfterSnapshot)
    IN /\ rows' = res.data
       /\ nextCursor' = res.nextCursor
       /\ cursorStack' = IF r.reset
                         THEN (IF r.startAfterSnapshot # Null
                               THEN <<r.startAfterSnapshot>> ELSE <<>>)
                         ELSE cursorStack
       /\ loading' = FALSE
       /\ inflight' = RemoveAt(inflight, i)
       /\ rowsQ' = r.q
       /\ latest' = IF i = Len(inflight) /\ latest = "pending" THEN "ok" ELSE latest
       /\ run' = IF run.ok /\ r.reset
                 THEN [run EXCEPT !.started = TRUE, !.first = res.data]
                 ELSE run
       /\ last' = IF r.pre.valid /\ r.retryPre.valid
                  THEN [event |-> "retried", kind |-> r.kind, pre |-> r.retryPre,
                        q |-> r.q]
                  ELSE NoLast
       /\ UNCHANGED <<rest, identity, err, disturbances>>

\* getPaged rejects: catch sets err, finally clears loading
ResolveFail ==
  \E i \in 1..Len(inflight) :
    LET r == inflight[i] IN
    /\ Disturb
    /\ err' = "Error cargando datos"
    /\ loading' = FALSE
    /\ inflight' = RemoveAt(inflight, i)
    /\ run' = NoRun
    /\ latest' = IF i = Len(inflight) /\ latest = "pending" THEN "failed" ELSE latest
    /\ last' = IF r.pre.valid
               THEN [event |-> "failed", kind |-> r.kind, pre |-> r.pre, q |-> r.q]
               ELSE NoLast
    /\ UNCHANGED <<rest, identity, rows, cursorStack, nextCursor, rowsQ>>

(* ------------------------- filter and sort state ----------------------- *)
\* a change of activeFilterType/year/salaNum/expPrefix/order re-renders, the
\* memoised constraints change and the effect calls fetchPage(true)
SetIdentity(aft, y, s, e, o) ==
  /\ <<aft, y, s, e, o>> # identity
  /\ activeFilterType' = aft /\ year' = y /\ salaNum' = s /\ expPrefix' = e
  /\ order' = o
  /\ Disturb
  /\ fetchPage(TRUE, Null, PlanOf(aft, y, s, e, o), "effect")
  /\ UNCHANGED <<rest, rows, cursorStack, nextCursor>>

YearInputs == {EMPTY, Y2009, Y2010}
SalaInputs == {EMPTY, Str1, StrX}
ExpInputs == {EMPTY, StrA, StrAA}

ClickYearFilter == SetIdentity("year", year, EMPTY, EMPTY, order)
ClickSalaFilter == SetIdentity("sala", EMPTY, salaNum, EMPTY, order)
ClickExpFilter == SetIdentity("exp", EMPTY, EMPTY, expPrefix, order)
\* "Sin filtro" and the badge's clear button
ClickNoFilter == SetIdentity("null", EMPTY, EMPTY, EMPTY, order)

ChangeYear ==
  /\ activeFilterType = "year"
  /\ \E v \in YearInputs : SetIdentity(activeFilterType, v, salaNum, expPrefix, order)
ChangeSalaNum ==
  /\ activeFilterType = "sala"
  /\ \E v \in SalaInputs : SetIdentity(activeFilterType, year, v, expPrefix, order)
ChangeExpPrefix ==
  /\ activeFilterType = "exp"
  /\ \E v \in ExpInputs : SetIdentity(activeFilterType, year, salaNum, v, order)
ChangeOrder ==
  \E v \in {"asc", "desc"} : SetIdentity(activeFilterType, year, salaNum, expPrefix, v)

\* "Aplicar": fetchPage(true), disabled while loading
ClickAplicar ==
  /\ ~loading
  /\ Click
  /\ fetchPage(TRUE, Null, Plan, "apply")
  /\ UNCHANGED <<rest, identity, rows, cursorStack, nextCursor>>

(* --------------- filter and sort state of "combined" ------------------- *)
\* a change of year/salaNum/monthFilter/expPrefix/order re-renders, the
\* memoised constraints change and the effect calls fetchPage(true)
SetFilters(y, s, m, e, o) ==
  /\ <<y, s, m, e, o>> # <<year, salaNum, monthFilter, expPrefix, order>>
  /\ year' = y /\ salaNum' = s /\ monthFilter' = m /\ expPrefix' = e /\ order' = o
  /\ Disturb
  /\ fetchPage(TRUE, Null, PlanAll(y, s, m, e, o), "effect")
  /\ UNCHANGED <<nDocs, component, activeFilterType, rows, cursorStack, nextCursor>>

\* the options of the two selects: "" or one of MONTHS / SALA_OPTIONS
MonthOptions == {EMPTY, Mayo}
SalaOptions == {EMPTY, Str1}

setYear ==
  \E v \in YearInputs : SetFilters(v, salaNum, monthFilter, expPrefix, order)
setMonthFilter ==
  \E v \in MonthOptions : SetFilters(year, salaNum, v, expPrefix, order)
setSalaNum ==
  \E v \in SalaOptions : SetFilters(year, v, monthFilter, expPrefix, order)
\* the direction button
setOrder ==
  SetFilters(year, salaNum, monthFilter, expPrefix,
             IF order = "asc" THEN "desc" ELSE "asc")

\* the clear button of the badge of an active filter
ClearFilter ==
  \E f \in {"year", "month", "sala", "exp"} :
    SetFilters(IF f = "year" THEN EMPTY ELSE year,
               IF f = "sala" THEN EMPTY ELSE salaNum,
               IF f = "month" THEN EMPTY ELSE monthFilter,
               IF f = "exp" THEN EMPTY ELSE expPrefix, order)

\* "Limpiar todos", shown while some filter is active
ClearAll == SetFilters(EMPTY, EMPTY, EMPTY, EMPTY, order)

(* ------------------------------ navigation ----------------------------- *)
canPrev == Len(cursorStack) > 0
canNext == nextCursor # Null

\* a variant of onNext without the test of nextCursor
onNext_noGuard ==
  /\ Len(cursorStack) < MaxStack
  /\ Click
  /\ cursorStack' = Append(cursorStack, nextCursor)
  /\ fetchPage(FALSE, nextCursor, Plan, "next")
  /\ UNCHANGED <<rest, identity, rows, nextCursor>>

\* a variant of onNext that calls fetchPage(false) without the cursor
onNext_noStartAfter ==
  IF nextCursor = Null
    THEN /\ last' = Called("next")
         /\ UNCHANGED <<rest, identity, rows, cursorStack, nextCursor, loading, err,
                        inflight, disturbances, rowsQ, run, latest>>
  ELSE /\ Len(cursorStack) < MaxStack
       /\ Click
       /\ cursorStack' = Append(cursorStack, nextCursor)
       /\ fetchPage(FALSE, Null, Plan, "next")
       /\ UNCHANGED <<rest, identity, rows, nextCursor>>

onNext ==
  IF nextCursor = Null
    THEN /\ last' = Called("next")
         /\ UNCHANGED <<rest, identity, rows, cursorStack, nextCursor, loading, err,
                        inflight, disturbances, rowsQ, run, latest>>
  ELSE /\ Len(cursorStack) < MaxStack
       /\ Click
       /\ cursorStack' = Append(cursorStack, nextCursor)
       /\ fetchPage(FALSE, nextCursor, Plan, "next")
       /\ UNCHANGED <<rest, identity, rows, nextCursor>>

\* a variant of onPrev without the test of the stack's length
onPrev_noGuard ==
  LET newStack == SubSeq(cursorStack, 1, Len(cursorStack) - 1)
      newStartAfter == IF newStack # <<>> THEN newStack[Len(newStack)] ELSE Null
  IN /\ Click
     /\ fetchPage(FALSE, newStartAfter, Plan, "prev")
     /\ cursorStack' = newStack
     /\ UNCHANGED <<rest, identity, rows, nextCursor>>

\* a variant of onPrev that starts after the top of the stack it received
onPrev_oldTop ==
  IF Len(cursorStack) = 0
    THEN /\ last' = Called("prev")
         /\ UNCHANGED <<rest, identity, rows, cursorStack, nextCursor, loading, err,
                        inflight, disturbances, rowsQ, run, latest>>
  ELSE LET newStack == SubSeq(cursorStack, 1, Len(cursorStack) - 1)
           newStartAfter == cursorStack[Len(cursorStack)]
       IN /\ Click
          /\ fetchPage(FALSE, newStartAfter, Plan, "prev")
          /\ cursorStack' = newStack
          /\ UNCHANGED <<rest, identity, rows, nextCursor>>

onPrev ==
  IF Len(cursorStack) = 0
    THEN /\ last' = Called("prev")
         /\ UNCHANGED <<rest, identity, rows, cursorStack, nextCursor, loading, err,
                        inflight, disturbances, rowsQ, run, latest>>
  ELSE LET newStack == SubSeq(cursorStack, 1, Len(cursorStack) - 1)
           newStartAfter == IF newStack # <<>> THEN newStack[Len(newStack)] ELSE Null
       IN /\ Click
          /\ fetchPage(FALSE, newStartAfter, Plan, "prev")
          /\ cursorStack' = newStack
          /\ UNCHANGED <<rest, identity, rows, nextCursor>>

\* "Siguiente" / "Anterior": disabled={!canNext || loading}
ClickNext == canNext /\ ~loading /\ onNext
ClickPrev == canPrev /\ ~loading /\ onPrev

\* next() / previous() invoked by a caller that does not look at canNext or
\* canPrev first
CallNext == ~loading /\ onNext
CallPrev == ~loading /\ onPrev

(* ---------------------------- specification ---------------------------- *)
\* the component after mounting: default state, the effect has called
\* fetchPage(true)
Init ==
  /\ nDocs \in 0..MaxDocs
  /\ component = "single" /\ monthFilter = EMPTY
  /\ activeFilterType = "null"
  /\ year = EMPTY /\ salaNum = EMPTY /\ expPrefix = EMPTY
  /\ order = "desc"
  /\ rows = <<>> /\ cursorStack = <<>> /\ nextCursor = Null
  /\ loading = TRUE /\ err = NoErr
  /\ inflight = <<[reset |-> TRUE, startAfterSnapshot |-> Null,
                   q |-> PlanOf("null", EMPTY, EMPTY, EMPTY, "desc"),
                   pageSize |-> PAGE_SIZE, kind |-> "effect",
                   pre |-> [cursorStack |-> <<>>, rows |-> <<>>,
                            nextCursor |-> Null, valid |-> TRUE],
                   retryPre |-> NoSnap]>>
  /\ disturbances = 0
  /\ rowsQ = NoPlan /\ run = NewRun /\ last = NoLast /\ latest = "pending"

Next ==
  \/ ClickYearFilter \/ ClickSalaFilter \/ ClickExpFilter \/ ClickNoFilter
  \/ ChangeYear \/ ChangeSalaNum \/ ChangeExpPrefix \/ ChangeOrder
  \/ ClickAplicar \/ ClickNext \/ ClickPrev
  \/ ResolveOk \/ ResolveFail

Spec == Init /\ [][Next]_vars

\* the component with its handlers called whether or not there is a page to
\* go to
NextCalls ==
  \/ ClickYearFilter \/ ClickSalaFilter \/ ClickExpFilter \/ ClickNoFilter
  \/ ChangeYear \/ ChangeSalaNum \/ ChangeExpPrefix \/ ChangeOrder
  \/ ClickAplicar \/ CallNext \/ CallPrev
  \/ ResolveOk \/ ResolveFail

SpecCalls == Init /\ [][NextCalls]_vars

\* "combined" after mounting: no filter, the effect has called fetchPage(true);
\* activeFilterType is no state of this component
InitCombined ==
  /\ nDocs \in 0..MaxDocs
  /\ component = "combined" /\ monthFilter = EMPTY
  /\ activeFilterType = "null"
  /\ year = EMPTY /\ salaNum = EMPTY /\ expPrefix = EMPTY
  /\ order = "desc"
  /\ rows = <<>> /\ cursorStack = <<>> /\ nextCursor = Null
  /\ loading = TRUE /\ err = NoErr
  /\ inflight = <<[reset |-> TRUE, startAfterSnapshot |-> Null,
                   q |-> PlanAll(EMPTY, EMPTY, EMPTY, EMPTY, "desc"),
                   pageSize |-> PAGE_SIZE, kind |-> "effect",
                   pre |-> [cursorStack |-> <<>>, rows |-> <<>>,
                            nextCursor |-> Null, valid |-> TRUE],
                   retryPre |-> NoSnap]>>
  /\ disturbances = 0
  /\ rowsQ = NoPlan /\ run = NewRun /\ last = NoLast /\ latest = "pending"

NextCombined ==
  \/ setYear \/ setMonthFilter \/ setSalaNum \/ setOrder
  \/ ClearFilter \/ ClearAll
  \/ ClickNext \/ ClickPrev
  \/ ResolveOk \/ ResolveFail

SpecCombined == InitCombined /\ [][NextCombined]_vars

\* the user changes filter or sort only between fetches, then keeps pressing
\* "Siguiente"; every fetch succeeds
IdleChange ==
  /\ inflight = <<>>
  /\ \/ ClickYearFilter \/ ClickSalaFilter \/ ClickExpFilter \/ ClickNoFilter
     \/ ChangeYear \/ ChangeSalaNum \/ ChangeExpPrefix \/ ChangeOrder

NextForward == IdleChange \/ ClickNext \/ ResolveOk

SpecForward ==
  Init /\ [][NextForward]_vars /\ WF_vars(ClickNext) /\ WF_vars(ResolveOk)

Idle == inflight = <<>>

(* ------------------------------ properties ----------------------------- *)
\* C1: in an undisturbed session (a reset on an idle component, every fetch
\* succeeding and resolving before the next click) that has taken as many
\* previous() steps as next() steps, the rows are those of the reset's first
\* page and the cursor stack is empty
C1_BackForwardInverse ==
  (run.ok /\ run.started /\ Idle /\ run.net = 0)
    => (rows = run.first /\ cursorStack = <<>>)

\* two next() steps and two previous() steps have brought the session back
C1_Witness ==
  run.ok /\ run.started /\ Idle /\ run.net = 0 /\ run.peak >= 2 /\ rows # <<>>

\* C2: after a reset, next() or previous() whose fetch failed, cursorStack, rows
\* and nextCursor are what they were before the call
C2_FailurePreservesState ==
  last.event = "failed" => Snap = last.pre

\* the session state a successful next()/previous() reaches from state pre
Expected(kind, pre, q) ==
  LET stack == IF kind = "next" THEN Append(pre.cursorStack, pre.nextCursor)
               ELSE SubSeq(pre.cursorStack, 1, Len(pre.cursorStack) - 1)
      start == IF stack # <<>> THEN stack[Len(stack)] ELSE Null
      res == getPaged(nDocs, PAGE_SIZE, q, start)
  IN [cursorStack |-> stack, rows |-> res.data, nextCursor |-> res.nextCursor,
      valid |-> TRUE]

\* C3: a next() or previous() that failed and was invoked again with success
\* leaves the state one successful next() or previous() gives from the state
\* before the failed call
C3_RetryIdempotent ==
  (last.event = "retried" /\ last.kind \in {"next", "prev"})
    => Snap = Expected(last.kind, last.pre, last.q)

\* C4: when the fetch started by a filter or sort change has resolved, the
\* cursor stack is empty
C4_ResetOnIdentityChange ==
  [][(Len(inflight) = 1 /\ inflight[1].kind = "effect" /\ inflight' = <<>>)
       => cursorStack' = <<>>]_vars

\* C5: every query that starts after a cursor runs under the plan of the query
\* that issued the cursor
C5_CursorValidity ==
  \A i \in 1..Len(inflight) :
    inflight[i].startAfterSnapshot # Null
      => inflight[i].startAfterSnapshot.q = inflight[i].q

\* C6: once every fetch has resolved and none has failed, the rows shown are
\* the result of a query issued under the current filter and sort
C6_StaleResultsDiscarded ==
  (Idle /\ err = NoErr /\ rowsQ # NoPlan) => rowsQ = Plan

\* C7: at most one fetch is in flight at any time
C7_SingleFlight == Len(inflight) <= 1

\* C8: the page shown has no next cursor exactly when it holds fewer rows than
\* the page size
C8_LastPageSignal == (nextCursor = Null) <=> (Len(rows) < PAGE_SIZE)

\* a short last page reached by next(), and before it a full page with a cursor
C8_Witness ==
  /\ rowsQ # NoPlan /\ cursorStack # <<>>
  /\ nextCursor = Null /\ rows # <<>> /\ Len(rows) < PAGE_SIZE

\* C9: when the user keeps pressing next and every fetch succeeds, the session
\* comes to rest on a page without next cursor, and no query is issued after it
C9_CursorTermination == <>[](Idle /\ nextCursor = Null)

\* the last page was reached by two next() steps
C9_Witness ==
  Idle /\ nextCursor = Null /\ Len(cursorStack) >= 2 /\ run.ok /\ run.net >= 2

\* C10: the displayed rows never exceed the page size
C10_PageBound == Len(rows) <= PAGE_SIZE

\* a full page fetched by next() or previous()
C10_Witness == Len(rows) = PAGE_SIZE /\ cursorStack # <<>> /\ Idle

\* the whole ordered result set of a plan, computed without cursors or limits
FullResult(q) == Take({d \in 1..nDocs : Matches(d, q.constraints)}, nDocs, q)

Min(a, b) == IF a < b THEN a ELSE b

\* page k (from 1) of the result set cut into consecutive runs of PAGE_SIZE
PageOf(q, k) ==
  SubSeq(FullResult(q), (k - 1) * PAGE_SIZE + 1,
         Min(k * PAGE_SIZE, Len(FullResult(q))))

\* C11: in an undisturbed session the page shown after k next() steps is the
\* k+1-th run of PAGE_SIZE records of the ordered result set: the pages are
\* full up to floor(M / PAGE_SIZE) and the one after holds M mod PAGE_SIZE
\* records, so that they neither overlap nor leave a record out; each page is
\* in the order of the sort and only the pages before the last carry a cursor
C11_PagesPartition ==
  (run.ok /\ run.started /\ Idle) =>
    LET M == Len(FullResult(Plan))
        k == run.net
    IN /\ rows = PageOf(Plan, k + 1)
       /\ k <= M \div PAGE_SIZE
       /\ Len(rows) = IF k < M \div PAGE_SIZE THEN PAGE_SIZE ELSE M % PAGE_SIZE
       /\ (nextCursor # Null) <=> (k < M \div PAGE_SIZE)
       /\ \A i, j \in 1..Len(rows) : i < j => Before(rows[i], rows[j], Plan)

\* the third page of five records: two full pages and a page of one
C11_Witness ==
  /\ run.ok /\ run.started /\ Idle /\ run.net = 2
  /\ Len(FullResult(Plan)) = 2 * PAGE_SIZE + 1 /\ Len(rows) = 1

\* C12: in an undisturbed session over a result set of M > 0 records, M a
\* multiple of PAGE_SIZE, the last non-empty page (after M / PAGE_SIZE - 1
\* next() steps, also when reached back by previous()) is full and carries its
\* last record as cursor; the page after it is empty, has no cursor and no
\* error, can be left by previous(), and no next() goes beyond it
C12_ExactMultipleBoundary ==
  LET M == Len(FullResult(Plan))
      n == M \div PAGE_SIZE
  IN (run.ok /\ run.started /\ Idle /\ M > 0 /\ M % PAGE_SIZE = 0) =>
       /\ run.net <= n
       /\ run.net = n - 1 =>
            /\ rows = PageOf(Plan, n) /\ Len(rows) = PAGE_SIZE
            /\ nextCursor = [doc |-> rows[Len(rows)], q |-> Plan]
       /\ run.net = n =>
            /\ rows = <<>> /\ nextCursor = Null /\ err = NoErr
            /\ canPrev

\* previous() has brought the session back from the empty page after the last
\* full one
C12_Witness ==
  LET M == Len(FullResult(Plan))
  IN /\ run.ok /\ run.started /\ Idle /\ M > 0 /\ M % PAGE_SIZE = 0
     /\ run.peak = M \div PAGE_SIZE /\ run.net = run.peak - 1
     /\ Len(rows) = PAGE_SIZE

\* C13: in an undisturbed session whose plan matches fewer than PAGE_SIZE
\* records, none included, the reset shows all of them as the only page: no
\* next cursor, no error, an empty cursor stack and no step beyond that page
C13_ShortResultNoError ==
  (run.ok /\ run.started /\ Idle /\ Len(FullResult(Plan)) < PAGE_SIZE) =>
    /\ rows = FullResult(Plan)
    /\ nextCursor = Null /\ err = NoErr /\ cursorStack = <<>>
    /\ run.peak = 0

\* a filter that matches fewer records than a page holds has been applied
C13_Witness ==
  /\ run.ok /\ run.started /\ Idle /\ constraints # <<>>
  /\ Len(FullResult(Plan)) < PAGE_SIZE /\ Len(rows) = Len(FullResult(Plan))
  /\ nDocs >= PAGE_SIZE

IsRange(p) == p.op \in {">=", "<="}

\* C15: every query handed to getPaged orders by the field of each of its range
\* predicates; a query with the prefix range therefore orders by expediente
C15_OrderFilterPinning ==
  \A i \in 1..Len(inflight) :
    \A j \in 1..Len(inflight[i].q.constraints) :
      IsRange(inflight[i].q.constraints[j])
        => inflight[i].q.obField = inflight[i].q.constraints[j].field

\* a query with the prefix range on expediente is in flight while the sort
\* field of the component is sala_num
C15_Witness ==
  /\ inflight # <<>> /\ expPrefix # EMPTY
  /\ \E j \in 1..Len(inflight[1].q.constraints) :
       /\ IsRange(inflight[1].q.constraints[j])
       /\ inflight[1].q.constraints[j].field = "expediente"
  /\ orderByField # "expediente"

\* the step is a call of the handler of the given kind
IsCall(kind) == last'.event = "called" /\ last'.kind = kind

\* C16: a call of next() while nextCursor is null issues no query and leaves
\* cursorStack, rows, nextCursor, loading and err as they are
C16_NextNoOpAtLastPage ==
  [][(IsCall("next") /\ nextCursor = Null)
       => UNCHANGED <<inflight, cursorStack, rows, nextCursor, loading, err>>]_vars

\* next() has been called on a last page that shows rows
C16_Witness ==
  /\ last = Called("next") /\ Idle /\ nextCursor = Null
  /\ rows # <<>> /\ cursorStack # <<>>

\* C17: a call of previous() while cursorStack is empty issues no query and
\* leaves cursorStack, rows, nextCursor, loading and err as they are
C17_PrevNoOpAtFirstPage ==
  [][(IsCall("prev") /\ cursorStack = <<>>)
       => UNCHANGED <<inflight, cursorStack, rows, nextCursor, loading, err>>]_vars

\* previous() has been called on a first page that has a next page
C17_Witness ==
  /\ last = Called("prev") /\ Idle /\ cursorStack = <<>>
  /\ rows # <<>> /\ nextCursor # Null

Top(s) == IF s # <<>> THEN s[Len(s)] ELSE Null
Front(s) == SubSeq(s, 1, Len(s) - 1)

\* the step adds exactly one query to those in flight: a page fetch (no reset)
\* of PAGE_SIZE records under the current plan that starts after the given cursor
IssuesPage(startAfterSnapshot) ==
  /\ Len(inflight') = Len(inflight) + 1
  /\ LET r == inflight'[Len(inflight')]
     IN /\ r.startAfterSnapshot = startAfterSnapshot
        /\ r.q = Plan /\ r.pageSize = PAGE_SIZE /\ ~r.reset

\* the step is the successful end of the only fetch in flight, made by the
\* handler of the given kind
SoloOk(kind) ==
  /\ Len(inflight) = 1 /\ inflight[1].kind = kind
  /\ inflight' = <<>> /\ err' = NoErr

\* the rows and next cursor after the step are the result of the query r
Displays(r) ==
  LET res == getPaged(nDocs, r.pageSize, r.q, r.startAfterSnapshot)
  IN rows' = res.data /\ nextCursor' = res.nextCursor

\* C18: a call of previous() with a non-empty cursorStack removes the top of
\* the stack and issues one query of the same plan and page size that starts
\* after the new top, or at the beginning when the stack has become empty;
\* when that query succeeds its result is displayed and the stack stays the
\* old one without its top
C18_PrevStep ==
  [][/\ (IsCall("prev") /\ cursorStack # <<>>) =>
          /\ cursorStack' = Front(cursorStack)
          /\ IssuesPage(Top(Front(cursorStack)))
          /\ UNCHANGED <<rows, nextCursor>>
     /\ SoloOk("prev") =>
          /\ Displays(inflight[1])
          /\ inflight[1].pre.valid =>
               cursorStack' = Front(inflight[1].pre.cursorStack)
    ]_vars

\* previous() has gone from the third page to the second
C18_Witness ==
  /\ run.ok /\ run.started /\ Idle /\ run.peak = 2 /\ run.net = 1
  /\ Len(cursorStack) = 1 /\ rows = PageOf(Plan, 2) /\ rows # <<>>

\* C19: a call of next() with a next cursor appends that cursor to cursorStack
\* and issues one query of the same plan and page size that starts after it;
\* when that query succeeds its result is displayed and the stack is the old
\* one plus that cursor
C19_NextStep ==
  [][/\ (IsCall("next") /\ nextCursor # Null) =>
          /\ cursorStack' = Append(cursorStack, nextCursor)
          /\ IssuesPage(nextCursor)
          /\ UNCHANGED <<rows, nextCursor>>
     /\ SoloOk("next") =>
          /\ Displays(inflight[1])
          /\ inflight[1].pre.valid =>
               cursorStack' = Append(inflight[1].pre.cursorStack,
                                     inflight[1].pre.nextCursor)
    ]_vars

\* next() has gone from the first page to the second
C19_Witness ==
  /\ run.ok /\ run.started /\ Idle /\ run.peak = 1 /\ run.net = 1
  /\ rows # <<>> /\ run.first # <<>>
  /\ cursorStack = <<[doc |-> run.first[Len(run.first)], q |-> Plan]>>

\* C20: whenever a page has been displayed and no fetch is in flight, the rows
\* are the result of the current plan's query started after the top of
\* cursorStack (from the beginning when the stack is empty), and the cursor at
\* each position i of the stack is the last record of page i of that plan
C20_StackIndexesPages ==
  (Idle /\ rowsQ # NoPlan) =>
    /\ rows = getPaged(nDocs, PAGE_SIZE, Plan, Top(cursorStack)).data
    /\ \A i \in 1..Len(cursorStack) :
         /\ PageOf(Plan, i) # <<>>
         /\ cursorStack[i].doc = PageOf(Plan, i)[Len(PageOf(Plan, i))]

\* the fields the predicates of a query test
FieldsOf(q) == {q.constraints[j].field : j \in 1..Len(q.constraints)}

\* C14: at most one of year, salaNum and expPrefix is non-empty, the inputs of
\* the filter types that are not the active one are empty, and every query
\* handed to getPaged tests at most one field
C14_FilterExclusivity ==
  /\ Cardinality({i \in 1..3 : <<year, salaNum, expPrefix>>[i] # EMPTY}) <= 1
  /\ activeFilterType = "year" => (salaNum = EMPTY /\ expPrefix = EMPTY)
  /\ activeFilterType = "sala" => (year = EMPTY /\ expPrefix = EMPTY)
  /\ activeFilterType = "exp" => (year = EMPTY /\ salaNum = EMPTY)
  /\ \A i \in 1..Len(inflight) : Cardinality(FieldsOf(inflight[i].q)) <= 1

\* C21: while the fetch of a next() or previous() called on an idle component
\* is in flight, the rows are still those of the page the call started from,
\* and canNext and canPrev are what they were on that page: canNext tells
\* whether that page has a next cursor, canPrev whether it is not the first
C21_ControlsReflectDisplayedPage ==
  (Len(inflight) = 1 /\ inflight[1].kind \in {"next", "prev"}
     /\ inflight[1].pre.valid) =>
    /\ rows = inflight[1].pre.rows
    /\ canNext <=> (inflight[1].pre.nextCursor # Null)
    /\ canPrev <=> (inflight[1].pre.cursorStack # <<>>)

\* the last step was a handler's call of fetchPage: its query is the last of
\* those in flight
JustIssued == last.event = "called" /\ inflight # <<>>

\* a filter type is selected and its input is blank
BlankSelected ==
  \/ activeFilterType = "year" /\ year = EMPTY
  \/ activeFilterType = "sala" /\ salaNum = EMPTY
  \/ activeFilterType = "exp" /\ expPrefix = EMPTY

\* the plan without filter: no predicates, ordered by the sort field
NonePlan(o) == PlanOf("null", EMPTY, EMPTY, EMPTY, o)

\* C22: while a filter type is selected with a blank input, the plan of the
\* render and the query just issued are those of no filter: no predicates, and
\* the order-by field is the sort field of the component
C22_BlankFilterIsNoFilter ==
  BlankSelected =>
    /\ Plan = NonePlan(order)
    /\ JustIssued => inflight[Len(inflight)].q = NonePlan(order)

\* the text v starts with the text pre
StartsWith(v, pre) == Len(v) >= Len(pre) /\ SubSeq(v, 1, Len(pre)) = pre

\* C23: with the prefix filter active and a non-empty prefix, the predicates
\* of the render are exactly expediente >= prefix and expediente <= prefix
\* followed by the sentinel, and a document satisfies them exactly when its
\* expediente starts with the prefix
C23_PrefixRangeExact ==
  (component = "single" /\ activeFilterType = "exp" /\ expPrefix # EMPTY) =>
    /\ constraints = <<Where("expediente", ">=", expPrefix),
                       Where("expediente", "<=", expPrefix \o <<SENTINEL>>)>>
    /\ \A d \in 1..nDocs :
         Matches(d, constraints) <=> StartsWith(FieldVal(d, "expediente"), expPrefix)

\* the rows of a prefix query are shown: some document has a longer expediente
\* with the prefix, one has the prefix itself and one does not start with it
C23_Witness ==
  /\ component = "single" /\ activeFilterType = "exp" /\ expPrefix # EMPTY
  /\ Idle /\ rowsQ = Plan /\ rows # <<>>
  /\ \E d \in 1..nDocs : ~StartsWith(FieldVal(d, "expediente"), expPrefix)
  /\ \E d \in 1..nDocs : FieldVal(d, "expediente") = expPrefix
  /\ \E d \in 1..nDocs : /\ StartsWith(FieldVal(d, "expediente"), expPrefix)
                         /\ FieldVal(d, "expediente") # expPrefix

\* the year filter, the sala filter is active with a non-empty value
YearActive ==
  year # EMPTY /\ (component = "single" => activeFilterType = "year")
SalaActive ==
  salaNum # EMPTY /\ (component = "single" => activeFilterType = "sala")
\* the name of the year field in the component
YearField == IF component = "single" THEN "anio" ELSE "year"

\* the plan is one equality on field f with value v, ordered by f
IsExactPlan(q, f, v) == q.constraints = <<Where(f, "==", v)>> /\ q.obField = f

\* C24: while the year or the sala filter is active with a non-empty value, the
\* plan of the render and the query just issued hold exactly one predicate, an
\* equality on the filter's field, and order by that field
C24_ExactMatchPlan ==
  /\ YearActive =>
       /\ IsExactPlan(Plan, YearField, year)
       /\ JustIssued => IsExactPlan(inflight[Len(inflight)].q, YearField, year)
  /\ SalaActive =>
       /\ IsExactPlan(Plan, "sala_num", <<Number(salaNum)>>)
       /\ JustIssued =>
            IsExactPlan(inflight[Len(inflight)].q, "sala_num", <<Number(salaNum)>>)

\* the position of document d in the ordered result set full
PosIn(full, d) == CHOOSE i \in 1..Len(full) : full[i] = d

\* the page a query of plan q returns when started after cursor c
PageAfter(q, c) == getPaged(nDocs, PAGE_SIZE, q, c).data

\* C25: a next cursor returned with a page is the last record of that page, and
\* every record of the query of the same plan started after it lies strictly
\* after that record in the order of the plan
C25_CursorIsLastRecord ==
  nextCursor # Null =>
    /\ rows # <<>>
    /\ nextCursor = [doc |-> rows[Len(rows)], q |-> rowsQ]
    /\ LET full == FullResult(rowsQ)
           page == PageAfter(rowsQ, nextCursor)
       IN \A i \in 1..Len(page) : PosIn(full, page[i]) > PosIn(full, nextCursor.doc)

\* a page fetched after a cursor has returned a cursor of its own, and records
\* follow it
C25_Witness ==
  /\ nextCursor # Null /\ Idle /\ cursorStack # <<>> /\ rowsQ = Plan
  /\ PageAfter(rowsQ, nextCursor) # <<>>

\* C26: while every cursor of cursorStack was issued under the current plan,
\* the cursors are pairwise distinct and lie at strictly increasing positions
\* of the result set
C26_StackDuplicateFree ==
  (\A i \in 1..Len(cursorStack) : cursorStack[i].q = Plan) =>
    LET full == FullResult(Plan)
    IN \A i, j \in 1..Len(cursorStack) :
         i < j => /\ cursorStack[i] # cursorStack[j]
                  /\ PosIn(full, cursorStack[i].doc) < PosIn(full, cursorStack[j].doc)

\* C27: loading is true whenever a fetch is in flight, so that Siguiente and
\* Anterior, disabled by loading, cannot call next() or previous() during a fetch
C27_LoadingTracksInFlight == inflight # <<>> => loading

\* C28: whenever no fetch is in flight, err is set exactly when the fetch
\* issued last has failed
C28_ErrReflectsLatest == Idle => ((err # NoErr) <=> (latest = "failed"))

\* C29: in an undisturbed session, after a previous() and the next() that
\* follows it the rows, the next cursor and the cursor stack are those shown
\* before the previous()
C29_PrevNextInverse ==
  (run.ok /\ Idle /\ run.stage = 2) => Snap = run.undo

\* previous() and then next() have been taken from a page after the first that
\* has rows and a next cursor
C29_Witness ==
  /\ run.ok /\ Idle /\ run.stage = 2 /\ run.undo.valid
  /\ cursorStack # <<>> /\ rows # <<>> /\ nextCursor # Null
====
